---- MODULE Spec2Model ----
(***************************************************************************)
(* A model of the Smart Time System (smart_tm.h / smart_tm.cpp): the       *)
(* process-wide leap-second tables and epoch, the calendar timestamp with  *)
(* its normalisation chain (fixMon .. fixFracSec, adjust), the conversion  *)
(* to and from seconds since epoch, and the comparison operators.          *)
(*                                                                         *)
(* Number representation.                                                  *)
(*  - long long fields are integers; the model's windows keep every value  *)
(*    far inside 64 bits, so signed arithmetic never overflows.            *)
(*  - a size_t value is held by its two's-complement reading: a result     *)
(*    that is negative as a mathematical integer stands for 2^64 plus that *)
(*    value.  Addition, subtraction and multiplication agree with the      *)
(*    64-bit unsigned ones on this reading; comparisons of size_t values   *)
(*    go through ULt / ULe / UGt / UGe, which order them as unsigned.      *)
(*  - a double is a binary floating-point number with MantBits significand *)
(*    bits (53 in the build); fracSec is held as the numerator of a        *)
(*    fraction over 2^FracBits and every arithmetic result is rounded to   *)
(*    the nearest representable value, ties to even (RoundD).              *)
(***************************************************************************)
EXTENDS Integers, Sequences, FiniteSets, TLC

VARIABLES
  initialized,       \* static bool smart_tm::initialized
  epoch,             \* static smart_tm smart_tm::epoch
  leapSecondTMs,     \* static std::vector<smart_tm> smart_tm::leapSecondTMs
  leapSecondDeltas,  \* static std::vector<size_t> smart_tm::leapSecondDeltas
  tm,                \* the smart_tm instance the caller works on
  other, third,      \* two more instances, operands of the comparisons
  conv,              \* the caller's TimeConverter
  op,                \* the operation that ran last
  arg,               \* its integer argument
  pre,               \* tm before it ran
  base,              \* tm before the field change that an adjust() follows
  ret,               \* the value it returned
  diag,              \* what it wrote to std::cerr
  lastInit,          \* the statics before the last init call, and its file
  stack              \* the calls and loops a running adjust() has still to do

statics == <<initialized, epoch, leapSecondTMs, leapSecondDeltas>>

vars == <<initialized, epoch, leapSecondTMs, leapSecondDeltas,
          tm, other, third, conv, op, arg, pre, base, ret, diag, lastInit,
          stack>>

(***************************************************************************)
(* Program constants (smart_tm.h).                                         *)
(***************************************************************************)
DEFAULT_EPOCH_YEAR == 1900
MONTHS_PER_YEAR == 12
HOURS_PER_DAY == 24
MINUTES_PER_HOUR == 60
TYPICAL_SECONDS_PER_MINUTE == 60
SECONDS_PER_HOUR == 3600
SECONDS_PER_DAY == 86400
SECONDS_PER_YEAR == 31536000
TYPICAL_DAYS_PER_YEAR == 365
START_MON == 1
START_DAY == 1
START_HR == 0
START_MIN == 0
START_SEC == 0
START_FRAC_SEC == 0
END_YR == 9999
END_MON == 12
END_HR == 23
END_MIN == 59

(* smart_tm::Month::Jan, smart_tm::Month::Feb *)
Jan == 0
Feb == 1

(* const short smart_tm::days[MONTHS_PER_YEAR], indexed from 0 as in C++ *)
days == [i \in 0..11 |->
           <<31, 28, 31, 30, 31, 30, 31, 31, 30, 31, 30, 31>>[i + 1]]

(***************************************************************************)
(* Bounds of the model.                                                    *)
(***************************************************************************)
\* significand bits of the model's double, and bits of the fraction grid
MantBits == 3
FracBits == 5
\* timestamps are drawn from the years DEFAULT_EPOCH_YEAR .. +YearSpan
YearSpan == 4
\* epoch years passed to init: DEFAULT_EPOCH_YEAR .. +EpochSpan
EpochSpan == 1
\* loop iterations of one adjust() call that the checks allow: the two
\* month loops of a day fix-up, a year of months each
MaxIterations == 24

(***************************************************************************)
(* Arithmetic of the build.                                                *)
(***************************************************************************)
RECURSIVE Pow2(_)
Pow2(n) == IF n = 0 THEN 1 ELSE 2 * Pow2(n - 1)

Abs(x) == IF x < 0 THEN -x ELSE x

\* static_cast<long long>(floor(double(a) / double(b))), b > 0
FloorDiv(a, b) == a \div b

\* static_cast<long long>(double(a) / double(b)): the cast truncates toward 0;
\* also the integer division a / b of C++
TruncDiv(a, b) == IF a >= 0 THEN a \div b ELSE -((-a) \div b)

\* unsigned comparison of two size_t values held by their signed reading
ULt(a, b) ==
  IF (a >= 0) = (b >= 0) THEN a < b ELSE a >= 0
UGt(a, b) == ULt(b, a)
ULe(a, b) == ~ULt(b, a)
UGe(a, b) == ~ULt(a, b)

\* number of significant bits of a > 0
RECURSIVE BitLen(_)
BitLen(a) == IF a = 0 THEN 0 ELSE 1 + BitLen(a \div 2)

\* the double nearest to n / 2^FracBits (round to nearest, ties to even),
\* as a numerator over 2^FracBits
RoundD(n) ==
  LET a == Abs(n)
      s == IF n < 0 THEN -1 ELSE 1
  IN  IF BitLen(a) <= MantBits THEN n
      ELSE LET q  == Pow2(BitLen(a) - MantBits)
               m  == a \div q
               r  == a - m * q
               up == (2 * r > q) \/ (2 * r = q /\ m % 2 = 1)
           IN  s * (IF up THEN (m + 1) * q ELSE m * q)

\* 1.0 as a numerator (END_FRAC_SEC)
One == Pow2(FracBits)

\* floor(x) of a double x = f / 2^FracBits
FloorD(f) == f \div One

(***************************************************************************)
(* The timestamp value type and the process-wide state.                    *)
(***************************************************************************)
smart_tm(yr, mon, day, hr, min, sec, fracSec) ==
  [yr |-> yr, mon |-> mon, day |-> day, hr |-> hr, min |-> min,
   sec |-> sec, fracSec |-> fracSec]

\* the static members, as one value g handed to every operation
Statics(init, ep, tms, deltas) ==
  [initialized |-> init, epoch |-> ep,
   leapSecondTMs |-> tms, leapSecondDeltas |-> deltas]

\* the static initialisers of smart_tm.cpp
StaticInit ==
  Statics(FALSE,
          smart_tm(DEFAULT_EPOCH_YEAR, START_MON, START_DAY, START_HR,
                   START_MIN, START_SEC, START_FRAC_SEC),
          <<>>, <<>>)

G == Statics(initialized, epoch, leapSecondTMs, leapSecondDeltas)

equalsWithFrac(a, b) ==
  a.yr = b.yr /\ a.mon = b.mon /\ a.day = b.day /\ a.hr = b.hr
  /\ a.min = b.min /\ a.sec = b.sec /\ a.fracSec = b.fracSec

equalsNoFrac(a, b) ==
  a.yr = b.yr /\ a.mon = b.mon /\ a.day = b.day /\ a.hr = b.hr
  /\ a.min = b.min /\ a.sec = b.sec

\* operator< with the minute level tested before the hour level
LessMinBeforeHr(lhs, rhs) ==
  IF lhs.yr = rhs.yr THEN
    IF lhs.mon = rhs.mon THEN
      IF lhs.day = rhs.day THEN
        IF lhs.min = rhs.min THEN
          IF lhs.hr = rhs.hr THEN
            IF lhs.sec = rhs.sec THEN lhs.fracSec < rhs.fracSec
            ELSE lhs.sec < rhs.sec
          ELSE lhs.hr < rhs.hr
        ELSE lhs.min < rhs.min
      ELSE lhs.day < rhs.day
    ELSE lhs.mon < rhs.mon
  ELSE lhs.yr < rhs.yr

\* operator< : the nested conditional of smart_tm.h
Less(lhs, rhs) ==
  IF lhs.yr = rhs.yr THEN
    IF lhs.mon = rhs.mon THEN
      IF lhs.day = rhs.day THEN
        IF lhs.hr = rhs.hr THEN
          IF lhs.min = rhs.min THEN
            IF lhs.sec = rhs.sec THEN lhs.fracSec < rhs.fracSec
            ELSE lhs.sec < rhs.sec
          ELSE lhs.min < rhs.min
        ELSE lhs.hr < rhs.hr
      ELSE lhs.day < rhs.day
    ELSE lhs.mon < rhs.mon
  ELSE lhs.yr < rhs.yr

Greater(lhs, rhs) == Less(rhs, lhs)
LessEq(lhs, rhs) == ~Greater(lhs, rhs)
GreaterEq(lhs, rhs) == ~Less(lhs, rhs)

isLeapYear(yr) == (yr % 4 = 0) /\ ((yr % 400 = 0) \/ (yr % 100 # 0))

isLeapMinute(g, t) ==
  \E i \in 1..Len(g.leapSecondTMs) :
    LET leapSecond == g.leapSecondTMs[i]
    IN  t.yr = leapSecond.yr /\ t.mon = leapSecond.mon
        /\ t.day = leapSecond.day /\ t.hr = leapSecond.hr
        /\ t.min = leapSecond.min

numDaysOfMonth(t) ==
  IF (t.mon - 1 = Feb) /\ isLeapYear(t.yr) THEN days[Feb] + 1
  ELSE days[t.mon - 1]

\* numSecondsOfMinute without the leap-second correction
numSecondsOfMinuteNoLeap(g, t) == 60

numSecondsOfMinute(g, t) == IF isLeapMinute(g, t) THEN 61 ELSE 60

yrInLimits(g, t) == t.yr >= g.epoch.yr /\ t.yr <= END_YR
monInLimits(t) == t.mon >= START_MON /\ t.mon <= END_MON
dayInLimits(t) ==
  t.day >= START_DAY /\ t.day <= START_DAY + numDaysOfMonth(t) - 1
hrInLimits(t) == t.hr >= START_HR /\ t.hr <= END_HR
minInLimits(t) == t.min >= START_MIN /\ t.min <= END_MIN
secInLimits(g, t) ==
  t.sec >= START_SEC /\ t.sec <= START_SEC + numSecondsOfMinute(g, t) - 1
fracSecInLimits(t) == t.fracSec >= START_FRAC_SEC /\ t.fracSec < One

\* && evaluates left to right and stops at the first false operand
isValid(g, t) ==
  IF ~yrInLimits(g, t) THEN FALSE
  ELSE IF ~monInLimits(t) THEN FALSE
  ELSE dayInLimits(t) /\ hrInLimits(t) /\ minInLimits(t)
       /\ secInLimits(g, t) /\ fracSecInLimits(t)

(***************************************************************************)
(* Leap-day and leap-second interval counters.                             *)
(***************************************************************************)
\* leap days since year 0 of the closed form used by both overloads
LeapDaysBefore(calcYr) ==
  TruncDiv(calcYr, 4) + TruncDiv(calcYr, 400) - TruncDiv(calcYr, 100)

\* leapDaysWalkedThroughFrom(const size_t startYr, const size_t endYr)
leapDaysWalkedThroughFromYr(startYr, endYr) ==
  LET startCalc == IF isLeapYear(startYr) THEN startYr - 1 ELSE startYr
      endCalc   == IF isLeapYear(endYr) THEN endYr - 1 ELSE endYr
  IN  LeapDaysBefore(endCalc) - LeapDaysBefore(startCalc)

\* the year an endpoint counts as when the month and day are not looked at
CalcYrWholeYear(t) == IF isLeapYear(t.yr) THEN t.yr - 1 ELSE t.yr

\* the year an endpoint counts as: a leap year whose Feb 29 is not yet passed
\* counts as the year before
CalcYr(t) ==
  IF isLeapYear(t.yr)
     /\ ((t.mon - 1 = Feb /\ t.day <= 29) \/ t.mon - 1 = Jan)
  THEN t.yr - 1 ELSE t.yr

\* leapDaysWalkedThroughFrom(const smart_tm& start, const smart_tm& end)
leapDaysWalkedThroughFrom(start, end) ==
  LeapDaysBefore(CalcYr(end)) - LeapDaysBefore(CalcYr(start))

\* numSecondsBetweenEpochs(const size_t startYr, const size_t endYr)
numSecondsBetweenEpochs(startYr, endYr) ==
  (endYr - startYr) * SECONDS_PER_YEAR
  + leapDaysWalkedThroughFromYr(startYr, endYr) * SECONDS_PER_DAY

\* smart_tm::leapSecondsWalkedThroughSinceEpoch
leapSecondsWalkedThroughSinceEpoch(g, t) ==
  Cardinality({i \in 1..Len(g.leapSecondTMs) :
                 Greater(t, g.leapSecondTMs[i])
                 /\ ~equalsNoFrac(t, g.leapSecondTMs[i])})

\* smart_tm::leapDaysWalkedThroughSinceEpoch
leapDaysWalkedThroughSinceEpoch(g, t) == leapDaysWalkedThroughFrom(g.epoch, t)

\* sum of days[i] * SECONDS_PER_DAY for i = 0 .. mon - 2
RECURSIVE MonthSeconds(_)
MonthSeconds(n) ==
  IF n <= 0 THEN 0 ELSE days[n - 1] * SECONDS_PER_DAY + MonthSeconds(n - 1)

\* size_t smart_tm::toEpoch() const
toEpoch(g, t) ==
  MonthSeconds(t.mon - 1)
  + (t.yr - g.epoch.yr) * SECONDS_PER_YEAR
  + (t.day - START_DAY) * SECONDS_PER_DAY
  + (t.hr - START_HR) * SECONDS_PER_HOUR
  + (t.min - START_MIN) * TYPICAL_SECONDS_PER_MINUTE
  + leapDaysWalkedThroughSinceEpoch(g, t) * SECONDS_PER_DAY
  + leapSecondsWalkedThroughSinceEpoch(g, t)
  + t.sec - START_SEC

\* long long leapSecondsWalkedThroughFrom(const size_t start, const size_t end)
leapSecondsWalkedThroughFrom(g, start, end) ==
  IF UGt(end, start)
  THEN Cardinality({i \in 1..Len(g.leapSecondDeltas) :
                      UGe(end, g.leapSecondDeltas[i])
                      /\ ULe(start, g.leapSecondDeltas[i])})
  ELSE -Cardinality({i \in 1..Len(g.leapSecondDeltas) :
                       UGe(start, g.leapSecondDeltas[i])
                       /\ ULe(end, g.leapSecondDeltas[i])})

(***************************************************************************)
(* The normalisation chain.                                                *)
(***************************************************************************)
fixMon(t) ==
  IF monInLimits(t) THEN t
  ELSE LET count == FloorDiv(t.mon - START_MON, MONTHS_PER_YEAR)
       IN  [t EXCEPT !.yr = @ + count, !.mon = @ - count * MONTHS_PER_YEAR]

\* the two loops of stepMonNoLeapCorrection
RECURSIVE StepFwdNoLeap(_)
StepFwdNoLeap(t) ==
  IF t.day > START_DAY + days[t.mon - 1] - 1
  THEN StepFwdNoLeap(fixMon([t EXCEPT !.day = @ - days[t.mon - 1],
                                      !.mon = @ + 1]))
  ELSE t

RECURSIVE StepBackNoLeap(_)
StepBackNoLeap(t) ==
  IF t.day < START_DAY
  THEN LET u == fixMon([t EXCEPT !.mon = @ - 1])
       IN  StepBackNoLeap([u EXCEPT !.day = @ + days[u.mon - 1]])
  ELSE t

stepMonNoLeapCorrection(t) == StepBackNoLeap(StepFwdNoLeap(t))

\* the two loops of stepMon
RECURSIVE StepFwd(_)
StepFwd(t) ==
  IF t.day > START_DAY + numDaysOfMonth(t) - 1
  THEN StepFwd(fixMon([t EXCEPT !.day = @ - numDaysOfMonth(t),
                                !.mon = @ + 1]))
  ELSE t

RECURSIVE StepBack(_)
StepBack(t) ==
  IF t.day < START_DAY
  THEN LET u == fixMon([t EXCEPT !.mon = @ - 1])
       IN  StepBack([u EXCEPT !.day = @ + numDaysOfMonth(u)])
  ELSE t

stepMon(t) == StepBack(StepFwd(t))

fixDay(t) ==
  IF dayInLimits(t) THEN t
  ELSE LET old   == smart_tm(t.yr, t.mon, START_DAY, START_HR, START_MIN,
                             START_SEC, START_FRAC_SEC)
           count == TruncDiv(t.day - START_DAY, TYPICAL_DAYS_PER_YEAR)
           u     == stepMonNoLeapCorrection(
                      [t EXCEPT !.yr = @ + count,
                                !.day = @ - count * TYPICAL_DAYS_PER_YEAR])
       IN  stepMon([u EXCEPT !.day = @ - leapDaysWalkedThroughFrom(old, u)])

fixHr(t) ==
  IF hrInLimits(t) THEN t
  ELSE LET count == FloorDiv(t.hr - START_HR, HOURS_PER_DAY)
       IN  fixDay([t EXCEPT !.day = @ + count,
                            !.hr = @ - count * HOURS_PER_DAY])

fixMin(t) ==
  IF minInLimits(t) THEN t
  ELSE LET count == FloorDiv(t.min - START_MIN, MINUTES_PER_HOUR)
       IN  fixHr([t EXCEPT !.hr = @ + count,
                           !.min = @ - count * MINUTES_PER_HOUR])

\* the two fine-step loops that end fixSec
RECURSIVE SecFwd(_, _)
SecFwd(g, t) ==
  IF t.sec > START_SEC + numSecondsOfMinute(g, t) - 1
  THEN SecFwd(g, fixMin([t EXCEPT !.sec = @ - numSecondsOfMinute(g, t),
                                  !.min = @ + 1]))
  ELSE t

RECURSIVE SecBack(_, _)
SecBack(g, t) ==
  IF t.sec < START_SEC
  THEN LET u == fixMin([t EXCEPT !.min = @ - 1])
       IN  SecBack(g, [u EXCEPT !.sec = @ + numSecondsOfMinute(g, u)])
  ELSE t

fixSec(g, t) ==
  IF secInLimits(g, t) THEN t
  ELSE LET addSec   == t.sec
           t0       == [t EXCEPT !.sec = 0]
           oldEpoch == toEpoch(g, t0)
           count    == FloorDiv(addSec - START_SEC, TYPICAL_SECONDS_PER_MINUTE)
           t1       == fixMin([t0 EXCEPT !.min = @ + count])
           t2       == [t1 EXCEPT
                          !.sec = addSec - count * TYPICAL_SECONDS_PER_MINUTE]
           newEpoch == toEpoch(g, t2)
           t3       == fixMin([t2 EXCEPT !.sec =
                          @ - leapSecondsWalkedThroughFrom(g, oldEpoch, newEpoch)])
       IN  SecBack(g, SecFwd(g, t3))

fixFracSec(g, t) ==
  IF fracSecInLimits(t) THEN t
  ELSE LET count == FloorD(t.fracSec - START_FRAC_SEC)
       IN  fixSec(g, [t EXCEPT !.sec = @ + count,
                               !.fracSec = RoundD(@ - count * One)])

\* void smart_tm::adjust()
adjust(g, t) ==
  IF isValid(g, t) THEN t
  ELSE fixFracSec(g, fixSec(g, fixMin(fixHr(fixDay(fixMon(t))))))

\* smart_tm::smart_tm(const size_t sinceEpoch)
FromEpoch(g, sinceEpoch) ==
  adjust(g, [g.epoch EXCEPT !.sec = @ + sinceEpoch])

\* smart_tm::smart_tm(const size_t sinceEpoch, const double fracSec)
FromEpochFrac(g, sinceEpoch, fracSec) ==
  adjust(g, [g.epoch EXCEPT !.sec = @ + sinceEpoch,
                            !.fracSec = RoundD(@ + fracSec)])

\* operator- with its operands exchanged
MinusSwapped(g, lhs, rhs) ==
  [whole |-> toEpoch(g, rhs) - toEpoch(g, lhs),
   frac |-> RoundD(rhs.fracSec - lhs.fracSec)]

\* double operator-(lhs, rhs): the size_t difference converted to long long
\* is the difference of the two readings; it is far below 2^53, so its
\* conversion to double is exact.  The double returned is the sum
\* whole + frac / 2^FracBits, held as its two terms.
Minus(g, lhs, rhs) ==
  LET integralDiff == toEpoch(g, lhs) - toEpoch(g, rhs)
  IN  [whole |-> integralDiff, frac |-> RoundD(lhs.fracSec - rhs.fracSec)]

(***************************************************************************)
(* TimeConverter (UTC_MET.h): the mission clock.  Its member functions are *)
(* defined in UTC_MET.cpp; they are modelled here from section 4.7 of the  *)
(* specification: the converter holds the mission start and its epoch      *)
(* seconds, computed once when it is built.                                *)
(***************************************************************************)
\* TimeConverter::TimeConverter(const smart_tm& missionStartTM)
TimeConverter(g, missionStartTM) ==
  [missionStartTM |-> missionStartTM,
   missionStartEpoch |-> toEpoch(g, missionStartTM),
   missionStartEpochFracSec |-> missionStartTM.fracSec]

\* size_t TimeConverter::toIntegralMET(const smart_tm& time) const
toIntegralMET(g, c, time) == toEpoch(g, time) - c.missionStartEpoch

\* smart_tm TimeConverter::toUTC(const size_t wholeMET, const double fracMET)
toUTC(g, c, wholeMET, fracMET) ==
  FromEpochFrac(g, c.missionStartEpoch + wholeMET,
                RoundD(c.missionStartEpochFracSec + fracMET))

(***************************************************************************)
(* The leap-second file and smart_tm::init.                                *)
(***************************************************************************)
\* characters are ASCII codes: '0'..'9' are 48..57, '#' is 35, tab is 9
IsDigit(c) == c >= 48 /\ c <= 57

\* bool getNextLine(...): the lines handed to init are the non-empty lines
\* that do not start with '#'
getNextLines(file) ==
  SelectSeq(file, LAMBDA line : line # <<>> /\ line[1] # 35)

\* strLine.substr(0, strLine.find_first_not_of("0123456789"))
RECURSIVE LeadingDigits(_)
LeadingDigits(line) ==
  IF line = <<>> \/ ~IsDigit(Head(line)) THEN <<>>
  ELSE <<Head(line)>> \o LeadingDigits(Tail(line))

\* strtoull(..., nullptr, BASE_10_PLEASE); no digits give 0
RECURSIVE strtoull(_)
strtoull(s) ==
  IF s = <<>> THEN 0
  ELSE strtoull(SubSeq(s, 1, Len(s) - 1)) * 10 + (s[Len(s)] - 48)

\* the while loop of init with leapSecondsSoFar left out of the delta
RECURSIVE InitLoopNoCarry(_, _, _, _)
InitLoopNoCarry(g, lines, defaultEpochToNewEpoch, leapSecondsSoFar) ==
  IF lines = <<>> THEN g
  ELSE
    LET defaultEpochToLeapSecond == strtoull(LeadingDigits(Head(lines)))
    IN  IF UGt(defaultEpochToLeapSecond, defaultEpochToNewEpoch)
        THEN
          LET g1 == [g EXCEPT !.leapSecondDeltas =
                       Append(@, defaultEpochToLeapSecond
                                   - defaultEpochToNewEpoch)]
              t  == FromEpoch(g1, defaultEpochToLeapSecond + leapSecondsSoFar)
              g2 == [g1 EXCEPT !.leapSecondTMs =
                       Append(@, [t EXCEPT !.sec = @ + 1])]
          IN  InitLoopNoCarry(g2, Tail(lines), defaultEpochToNewEpoch,
                              leapSecondsSoFar + 1)
        ELSE InitLoopNoCarry(g, Tail(lines), defaultEpochToNewEpoch,
                             leapSecondsSoFar)

\* the while loop of init over the remaining lines
RECURSIVE InitLoop(_, _, _, _)
InitLoop(g, lines, defaultEpochToNewEpoch, leapSecondsSoFar) ==
  IF lines = <<>> THEN g
  ELSE
    LET defaultEpochToLeapSecond == strtoull(LeadingDigits(Head(lines)))
    IN  IF UGt(defaultEpochToLeapSecond, defaultEpochToNewEpoch)
        THEN
          LET g1 == [g EXCEPT !.leapSecondDeltas =
                       Append(@, defaultEpochToLeapSecond
                                   - defaultEpochToNewEpoch + leapSecondsSoFar)]
              t  == FromEpoch(g1, defaultEpochToLeapSecond + leapSecondsSoFar)
              g2 == [g1 EXCEPT !.leapSecondTMs =
                       Append(@, [t EXCEPT !.sec = @ + 1])]
          IN  InitLoop(g2, Tail(lines), defaultEpochToNewEpoch,
                       leapSecondsSoFar + 1)
        ELSE InitLoop(g, Tail(lines), defaultEpochToNewEpoch, leapSecondsSoFar)

\* void smart_tm::init(epochYr, leapFile) when the file opens
init(g, epochYr, file) ==
  LET cleared == [g EXCEPT !.leapSecondTMs = <<>>, !.leapSecondDeltas = <<>>,
                           !.initialized = TRUE]
      built   == InitLoop(cleared, getNextLines(file),
                          numSecondsBetweenEpochs(DEFAULT_EPOCH_YEAR, epochYr), 0)
  IN  [built EXCEPT !.epoch.yr = epochYr]

(***************************************************************************)
(* Inputs.                                                                 *)
(***************************************************************************)
\* the decimal digits of n >= 0 as characters
RECURSIVE Digits(_)
Digits(n) == IF n < 10 THEN <<48 + n>> ELSE Digits(n \div 10) \o <<48 + (n % 10)>>

\* Unix-style seconds from 1900-01-01 to the midnight that follows a leap
\* second: after 30 Jun 1900, 31 Dec 1900 and 30 Jun 1904
LeapJul1900 == 181 * SECONDS_PER_DAY
LeapJan1901 == 365 * SECONDS_PER_DAY
LeapJul1904 == (4 * 365 + 182) * SECONDS_PER_DAY

\* a leap-seconds.list: comment lines, an empty line, data lines with a
\* tab-separated tail, and a last line of digits only
FileA ==
  << <<35, 32, 65>>,
     Digits(LeapJul1900) \o <<9, 49, 48, 9, 35>>,
     Digits(LeapJan1901) \o <<9, 49, 49>>,
     <<>>,
     <<35, 64, 9, 51>>,
     Digits(LeapJul1904) >>

\* a list with one leap second
FileB == << <<35>>, Digits(LeapJul1904) \o <<32, 49, 50>> >>

Files == <<FileA, FileB>>

EpochYears == DEFAULT_EPOCH_YEAR .. DEFAULT_EPOCH_YEAR + EpochSpan
Years == DEFAULT_EPOCH_YEAR .. DEFAULT_EPOCH_YEAR + YearSpan

\* (month, day) of the raw constructor's inputs: the first and last days
\* around the month ends the leap rules touch; (2, 30) is no date
MonDays == { <<1, 1>>, <<2, 28>>, <<2, 29>>, <<2, 30>>, <<3, 1>>,
             <<6, 30>>, <<7, 1>>, <<12, 31>> }
HrMins == { <<0, 0>>, <<23, 59>> }
Secs == {0, 59, 60, 61}

\* in-range and nearly in-range field values, on the whole year window
GridInputs ==
  { smart_tm(y, md[1], md[2], hm[1], hm[2], s, 0) :
      y \in Years, md \in MonDays, hm \in HrMins, s \in Secs }

\* several fields out of range at once, negative ones included, with
\* fractional seconds below 0, inside [0, 1) and above 1
OffInputs ==
  { smart_tm(y, mo, d, h, mi, s, f) :
      y \in {DEFAULT_EPOCH_YEAR + 4},
      mo \in {-1, 6, 13}, d \in {0, 30, 32}, h \in {-1, 23, 24},
      mi \in {59, 60}, s \in {-1, 60, 122},
      f \in {-1, Pow2(FracBits - 1), 5 * Pow2(FracBits - 1)} }

\* valid timestamps with a fractional second
FracInputs ==
  { smart_tm(y, 6, 30, 23, 59, s, f) :
      y \in {DEFAULT_EPOCH_YEAR, DEFAULT_EPOCH_YEAR + 4}, s \in {59, 60},
      f \in {1, Pow2(FracBits - 1), 7 * Pow2(FracBits - 3)} }

RawInputs == GridInputs \cup OffInputs \cup FracInputs

\* seconds added to the sec field before adjust()
SecDeltas ==
  { -(SECONDS_PER_YEAR + 1), -SECONDS_PER_DAY, -61, -1, 1, 200,
    SECONDS_PER_YEAR + SECONDS_PER_DAY }

\* epoch offsets handed to smart_tm(size_t): the start of the epoch, and
\* every entry of the leap-delta table with its two neighbours
SinceEpochInputs(g) ==
  {0, 1, 59, 60, SECONDS_PER_DAY - 1, SECONDS_PER_YEAR}
  \cup { g.leapSecondDeltas[i] + o :
           i \in 1..Len(g.leapSecondDeltas), o \in {-1, 0, 1} }

\* mission starts: the first second of two years, a leap second, and the
\* second before one
MissionStarts ==
  { smart_tm(DEFAULT_EPOCH_YEAR, 1, 1, 0, 0, 0, 0),
    smart_tm(DEFAULT_EPOCH_YEAR + 1, 1, 1, 0, 0, 0, 0),
    smart_tm(DEFAULT_EPOCH_YEAR, 6, 30, 23, 59, 60, 0),
    smart_tm(DEFAULT_EPOCH_YEAR + 4, 6, 30, 23, 59, 59, 0) }

\* the timestamps handed to the converter
TargetInputs ==
  { smart_tm(y, md[1], md[2], hm[1], hm[2], s, 0) :
      y \in Years, md \in { <<1, 1>>, <<6, 30>>, <<7, 1>>, <<12, 31>> },
      hm \in HrMins, s \in {0, 59, 60} }

\* operands of the difference: the first second of a year, leap seconds with
\* the seconds around them, a leap day, a fractional second, and a second 61
DiffInputs ==
  { smart_tm(DEFAULT_EPOCH_YEAR, 1, 1, 0, 0, 0, 0),
    smart_tm(DEFAULT_EPOCH_YEAR, 6, 30, 23, 59, 59, 0),
    smart_tm(DEFAULT_EPOCH_YEAR, 6, 30, 23, 59, 60, 0),
    smart_tm(DEFAULT_EPOCH_YEAR, 7, 1, 0, 0, 0, 0),
    smart_tm(DEFAULT_EPOCH_YEAR + 1, 1, 1, 0, 0, 0, 0),
    smart_tm(DEFAULT_EPOCH_YEAR + YearSpan, 2, 29, 12, 30, 0, 0),
    smart_tm(DEFAULT_EPOCH_YEAR + YearSpan, 6, 30, 23, 59, 60, 0),
    smart_tm(DEFAULT_EPOCH_YEAR + YearSpan, 7, 1, 0, 0, 0, 0),
    smart_tm(DEFAULT_EPOCH_YEAR + YearSpan, 12, 31, 23, 59, 59, 0),
    smart_tm(DEFAULT_EPOCH_YEAR + YearSpan, 7, 1, 0, 0, 0, Pow2(FracBits - 1)),
    smart_tm(DEFAULT_EPOCH_YEAR + 1, 3, 1, 0, 0, 61, 0) }

\* operands of the comparisons: each of the seven fields takes one of two
\* values, and at most n fields take the larger one
CmpSpread == 2
CmpLow == smart_tm(DEFAULT_EPOCH_YEAR + 2, 6, 15, 12, 30, 30, Pow2(FracBits - 2))
CmpInputs(n) ==
  { [f \in DOMAIN CmpLow |-> IF f \in hi THEN CmpLow[f] + 1 ELSE CmpLow[f]] :
      hi \in { h \in SUBSET DOMAIN CmpLow : Cardinality(h) <= n } }

(***************************************************************************)
(* The state machine.                                                      *)
(***************************************************************************)
NoInit == [before |-> StaticInit, file |-> 0]

\* no TimeConverter constructed yet
NoConv == [missionStartTM |-> StaticInit.epoch, missionStartEpoch |-> 0,
           missionStartEpochFracSec |-> 0]

SetStatics(g) ==
  /\ initialized' = g.initialized
  /\ epoch' = g.epoch
  /\ leapSecondTMs' = g.leapSecondTMs
  /\ leapSecondDeltas' = g.leapSecondDeltas

\* checkInit without its warning
checkInitSilent(g) == "none"

\* void smart_tm::checkInit()
checkInit(g) == IF g.initialized THEN "none" ELSE "warn"

Init ==
  /\ initialized = StaticInit.initialized
  /\ epoch = StaticInit.epoch
  /\ leapSecondTMs = StaticInit.leapSecondTMs
  /\ leapSecondDeltas = StaticInit.leapSecondDeltas
  /\ tm = StaticInit.epoch
  /\ other = StaticInit.epoch
  /\ third = StaticInit.epoch
  /\ conv = NoConv
  /\ op = "idle"
  /\ arg = 0
  /\ pre = StaticInit.epoch
  /\ base = StaticInit.epoch
  /\ ret = 0
  /\ diag = "none"
  /\ lastInit = NoInit
  /\ stack = <<>>

\* the caller holds one instance at a time, and calls init while it holds
\* none: "callers must complete initialization before constructing or
\* normalizing any Timestamp"
NoInstance == op \in {"idle", "init", "initFail"}

\* smart_tm::init(epochYr, leapFile), the file opens
InitOk(epochYr, f) ==
  /\ NoInstance
  /\ SetStatics(init(G, epochYr, Files[f]))
  /\ lastInit' = [before |-> G, file |-> f]
  /\ op' = "init"
  /\ diag' = "none"
  /\ UNCHANGED <<stack, tm, other, third, conv, arg, pre, base, ret>>

\* init with the tables cleared and the flag reset before the file is tested
InitFailCleared(epochYr) ==
  /\ NoInstance
  /\ SetStatics([G EXCEPT !.leapSecondTMs = <<>>, !.leapSecondDeltas = <<>>,
                          !.initialized = FALSE])
  /\ lastInit' = [before |-> G, file |-> 0]
  /\ op' = "initFail"
  /\ diag' = "error"
  /\ UNCHANGED <<stack, tm, other, third, conv, arg, pre, base, ret>>

\* smart_tm::init(epochYr, leapFile), the file does not open
InitFail(epochYr) ==
  /\ NoInstance
  /\ lastInit' = [before |-> G, file |-> 0]
  /\ op' = "initFail"
  /\ diag' = "error"
  /\ UNCHANGED <<stack, statics, tm, other, third, conv, arg, pre, base, ret>>

\* the caller's instance goes out of scope, once no call on it is running
Drop ==
  /\ op \notin {"idle", "adjust.run", "init.run"}
  /\ tm' = StaticInit.epoch
  /\ pre' = StaticInit.epoch
  /\ base' = StaticInit.epoch
  /\ op' = "idle"
  /\ arg' = 0
  /\ ret' = 0
  /\ diag' = "none"
  /\ lastInit' = NoInit
  /\ conv' = NoConv
  /\ UNCHANGED <<stack, statics, other, third>>

\* smart_tm(yr, mon, day, hr, min, sec, fracSec): the fields as given
Construct(t) ==
  /\ NoInstance
  /\ tm' = t
  /\ pre' = t
  /\ base' = t
  /\ op' = "construct"
  /\ arg' = 0
  /\ ret' = 0
  /\ diag' = "none"
  /\ lastInit' = NoInit
  /\ UNCHANGED <<stack, statics, other, third, conv>>

\* smart_tm(sinceEpoch)
ConstructEpoch(sinceEpoch) ==
  /\ NoInstance
  /\ tm' = FromEpoch(G, sinceEpoch)
  /\ pre' = tm'
  /\ base' = tm'
  /\ op' = "fromEpoch"
  /\ arg' = sinceEpoch
  /\ ret' = 0
  /\ diag' = checkInit(G)
  /\ lastInit' = NoInit
  /\ UNCHANGED <<stack, statics, other, third, conv>>

\* t.toEpoch(); reads days[0 .. mon - 2], so the month is in range
ToEpoch ==
  /\ op \in {"construct", "fromEpoch"}
  /\ monInLimits(tm)
  /\ ret' = toEpoch(G, tm)
  /\ op' = IF op = "fromEpoch" THEN "fromEpoch.toEpoch" ELSE "toEpoch"
  /\ pre' = tm
  /\ base' = tm
  /\ diag' = "none"
  /\ UNCHANGED <<stack, statics, tm, other, third, conv, arg, lastInit>>

\* smart_tm(t.toEpoch()): a second instance from the value just returned
ConstructEpochRet ==
  /\ op = "toEpoch"
  /\ tm' = FromEpoch(G, ret)
  /\ pre' = tm
  /\ base' = tm
  /\ op' = "toEpoch.fromEpoch"
  /\ arg' = ret
  /\ diag' = checkInit(G)
  /\ UNCHANGED <<stack, statics, other, third, conv, ret, lastInit>>

\* t.sec += k, on a valid timestamp
AddSec(k) ==
  /\ op \in {"construct", "fromEpoch"}
  /\ isValid(G, tm)
  /\ tm' = [tm EXCEPT !.sec = @ + k]
  /\ pre' = tm
  /\ base' = tm
  /\ op' = "addSec"
  /\ arg' = k
  /\ ret' = 0
  /\ diag' = "none"
  /\ UNCHANGED <<stack, statics, other, third, conv, lastInit>>

\* t.adjust()
Adjust ==
  /\ op \in {"construct", "fromEpoch", "addSec", "adjust"}
  /\ tm' = adjust(G, tm)
  /\ pre' = tm
  /\ op' = CASE op = "addSec" -> "addSec.adjust"
             [] op = "adjust" -> "adjust.adjust"
             [] OTHER -> "adjust"
  /\ diag' = "none"
  /\ UNCHANGED <<stack, statics, other, third, conv, arg, base, ret, lastInit>>

\* t.isValid()
IsValid ==
  /\ op = "construct"
  /\ ret' = isValid(G, tm)
  /\ op' = "isValid"
  /\ diag' = "none"
  /\ UNCHANGED <<stack, statics, tm, other, third, conv, arg, pre, base, lastInit>>

Next ==
  \/ \E epochYr \in EpochYears, f \in 1..Len(Files) : InitOk(epochYr, f)
  \/ \E epochYr \in EpochYears : InitFail(epochYr)
  \/ Drop
  \/ \E t \in RawInputs : Construct(t)
  \/ \E n \in SinceEpochInputs(G) : ConstructEpoch(n)
  \/ ToEpoch
  \/ ConstructEpochRet
  \/ \E k \in SecDeltas : AddSec(k)
  \/ Adjust
  \/ IsValid

Spec == Init /\ [][Next]_vars

(***************************************************************************)
(* The mission clock: a converter is built from a mission start, then a    *)
(* timestamp is converted to elapsed seconds and back.                     *)
(***************************************************************************)
\* TimeConverter conv(smart_tm(...)): the converter from a mission start
NewConverter(s) ==
  /\ NoInstance
  /\ monInLimits(s)
  /\ conv' = TimeConverter(G, s)
  /\ tm' = s
  /\ pre' = s
  /\ base' = s
  /\ op' = "converter"
  /\ arg' = 0
  /\ ret' = 0
  /\ diag' = "none"
  /\ lastInit' = NoInit
  /\ UNCHANGED <<stack, statics, other, third>>

\* conv.toIntegralMET(smart_tm(...)) on a timestamp given by its fields
ToIntegralMET(t) ==
  /\ op = "converter"
  /\ monInLimits(t)
  /\ tm' = t
  /\ pre' = t
  /\ base' = t
  /\ ret' = toIntegralMET(G, conv, t)
  /\ op' = "toIntegralMET"
  /\ diag' = "none"
  /\ UNCHANGED <<stack, statics, other, third, conv, arg, lastInit>>

\* conv.toUTC(met) with the elapsed seconds just returned: an integral
\* count converts to double exactly, so its fractional part is 0
ToUTC ==
  /\ op = "toIntegralMET"
  /\ tm' = toUTC(G, conv, ret, 0)
  /\ pre' = tm
  /\ arg' = ret
  /\ op' = "toUTC"
  /\ diag' = checkInit(G)
  /\ UNCHANGED <<stack, statics, other, third, conv, base, ret, lastInit>>

NextConv ==
  \/ \E epochYr \in EpochYears, f \in 1..Len(Files) : InitOk(epochYr, f)
  \/ Drop
  \/ \E s \in MissionStarts : NewConverter(s)
  \/ \E t \in TargetInputs : ToIntegralMET(t)
  \/ ToUTC

SpecConv == Init /\ [][NextConv]_vars

(***************************************************************************)
(* Every constructor, with what it writes to std::cerr.                    *)
(***************************************************************************)
\* for importing from the ctime tm struct
MONTH_OFFSET == 1
YEAR_OFFSET == 1900

\* ctime tm structs: 1900-06-30 23:59:59 and 1904-03-01 00:00:00
TmInputs ==
  { [tm_year |-> 0, tm_mon |-> 5, tm_mday |-> 30, tm_hour |-> 23,
     tm_min |-> 59, tm_sec |-> 59],
    [tm_year |-> YearSpan, tm_mon |-> 2, tm_mday |-> 1, tm_hour |-> 0,
     tm_min |-> 0, tm_sec |-> 0] }

\* raw fields: a recorded leap second, the second before it, a second 61,
\* and a day 0
WarnInputs ==
  { smart_tm(DEFAULT_EPOCH_YEAR, 6, 30, 23, 59, 60, 0),
    smart_tm(DEFAULT_EPOCH_YEAR + YearSpan, 6, 30, 23, 59, 59, 0),
    smart_tm(DEFAULT_EPOCH_YEAR + YearSpan, 6, 30, 23, 59, 61, 0),
    smart_tm(DEFAULT_EPOCH_YEAR + 1, 3, 0, 12, 0, 0, Pow2(FracBits - 1)) }

\* a new instance t from the constructor named by name
Constructed(name, t, written) ==
  /\ NoInstance
  /\ tm' = t
  /\ pre' = t
  /\ base' = t
  /\ op' = name
  /\ arg' = 0
  /\ ret' = 0
  /\ diag' = written
  /\ lastInit' = NoInit
  /\ UNCHANGED <<stack, statics, other, third, conv>>

\* smart_tm(): the epoch
ConstructDefault == Constructed("default", epoch, "none")

\* smart_tm(const tm& c_tm)
ConstructTm(c_tm) ==
  Constructed("fromTm",
              smart_tm(c_tm.tm_year + YEAR_OFFSET, c_tm.tm_mon + MONTH_OFFSET,
                       c_tm.tm_mday, c_tm.tm_hour, c_tm.tm_min, c_tm.tm_sec,
                       0),
              checkInit(G))

\* smart_tm(const tm& c_tm, const double fracSec)
ConstructTmFrac(c_tm, fracSec) ==
  Constructed("fromTmFrac",
              smart_tm(c_tm.tm_year + YEAR_OFFSET, c_tm.tm_mon + MONTH_OFFSET,
                       c_tm.tm_mday, c_tm.tm_hour, c_tm.tm_min, c_tm.tm_sec,
                       fracSec),
              checkInit(G))

\* smart_tm(const size_t sinceEpoch, const double fracSec)
ConstructEpochFrac(sinceEpoch, fracSec) ==
  Constructed("fromEpochFrac", FromEpochFrac(G, sinceEpoch, fracSec),
              checkInit(G))

\* adjust() or toEpoch() on an instance from any constructor
Constructors ==
  {"construct", "default", "fromTm", "fromTmFrac", "fromEpoch",
   "fromEpochFrac"}

AdjustAny ==
  /\ op \in Constructors
  /\ tm' = adjust(G, tm)
  /\ pre' = tm
  /\ op' = "adjust"
  /\ diag' = "none"
  /\ UNCHANGED <<stack, statics, other, third, conv, arg, base, ret, lastInit>>

ToEpochAny ==
  /\ op \in Constructors
  /\ monInLimits(tm)
  /\ ret' = toEpoch(G, tm)
  /\ op' = "toEpoch"
  /\ pre' = tm
  /\ diag' = "none"
  /\ UNCHANGED <<stack, statics, tm, other, third, conv, arg, base, lastInit>>

NextWarn ==
  \/ \E epochYr \in EpochYears, f \in 1..Len(Files) : InitOk(epochYr, f)
  \/ \E epochYr \in EpochYears : InitFail(epochYr)
  \/ Drop
  \/ \E t \in WarnInputs : Construct(t)
  \/ ConstructDefault
  \/ \E c \in TmInputs : ConstructTm(c)
  \/ \E c \in TmInputs, f \in {Pow2(FracBits - 1)} : ConstructTmFrac(c, f)
  \/ \E n \in SinceEpochInputs(G) : ConstructEpoch(n)
  \/ \E n \in SinceEpochInputs(G), f \in {Pow2(FracBits - 1)} :
       ConstructEpochFrac(n, f)
  \/ AdjustAny
  \/ ToEpochAny

SpecWarn == Init /\ [][NextWarn]_vars

(***************************************************************************)
(* init, one line of the file at a time.                                   *)
(***************************************************************************)
\* epoch years on both sides of the default epoch year
SelectYears == (DEFAULT_EPOCH_YEAR - EpochSpan) .. (DEFAULT_EPOCH_YEAR + EpochSpan)

\* the locals of init between two lines: the lines not yet read,
\* defaultEpochToNewEpoch, leapSecondsSoFar, the parameter epochYr, and the
\* line just read with the statics and leapSecondsSoFar before it
InitFrame(lines, d, k, epochYr, v, before, kBefore) ==
  [label |-> "initLoop", lines |-> lines, defaultEpochToNewEpoch |-> d,
   leapSecondsSoFar |-> k, epochYr |-> epochYr,
   defaultEpochToLeapSecond |-> v, before |-> before, kBefore |-> kBefore]

\* init up to the while loop: the file opens, the tables are cleared, the
\* flag is set
InitBegin(epochYr, f) ==
  /\ NoInstance
  /\ SetStatics([G EXCEPT !.leapSecondTMs = <<>>, !.leapSecondDeltas = <<>>,
                          !.initialized = TRUE])
  /\ stack' = <<InitFrame(getNextLines(Files[f]),
                          numSecondsBetweenEpochs(DEFAULT_EPOCH_YEAR, epochYr),
                          0, epochYr, -1, G, 0)>>
  /\ lastInit' = [before |-> G, file |-> f]
  /\ op' = "init.run"
  /\ diag' = "none"
  /\ UNCHANGED <<tm, other, third, conv, arg, pre, base, ret>>

\* one pass of the while loop
InitLine ==
  /\ op = "init.run"
  /\ stack[1].lines # <<>>
  /\ LET fr == stack[1]
         g  == InitLoop(G, <<Head(fr.lines)>>, fr.defaultEpochToNewEpoch,
                        fr.leapSecondsSoFar)
         k  == fr.leapSecondsSoFar
                 + Len(g.leapSecondDeltas) - Len(leapSecondDeltas)
     IN  /\ SetStatics(g)
         /\ stack' = <<InitFrame(Tail(fr.lines), fr.defaultEpochToNewEpoch, k,
                                 fr.epochYr,
                                 strtoull(LeadingDigits(Head(fr.lines))),
                                 G, fr.leapSecondsSoFar)>>
  /\ UNCHANGED <<tm, other, third, conv, op, arg, pre, base, ret, diag,
                 lastInit>>

\* the end of the file: epoch.yr = epochYr
InitEnd ==
  /\ op = "init.run"
  /\ stack[1].lines = <<>>
  /\ SetStatics([G EXCEPT !.epoch.yr = stack[1].epochYr])
  /\ stack' = <<>>
  /\ op' = "init"
  /\ UNCHANGED <<tm, other, third, conv, arg, pre, base, ret, diag, lastInit>>

NextSelect ==
  \/ \E epochYr \in SelectYears, f \in 1..Len(Files) : InitBegin(epochYr, f)
  \/ InitLine
  \/ InitEnd
  \/ Drop

SpecSelect == Init /\ [][NextSelect]_vars

(***************************************************************************)
(* adjust() on a day out of range.                                         *)
(***************************************************************************)
\* every day within DaySpread days of the month, and the days within two of
\* YearSpan and 2 * YearSpan typical years before and after it
DaySpread == 100

FarDays ==
  { s * k * YearSpan * TYPICAL_DAYS_PER_YEAR + o :
      s \in {-1, 1}, k \in {1, 2}, o \in -2..2 }

\* 23:59:59.5 on day D of every month of every year of Years
DayInputs ==
  { smart_tm(y, m, D, 23, 59, 59, Pow2(FracBits - 1)) :
      y \in Years, m \in 1..MONTHS_PER_YEAR,
      D \in ((-DaySpread * YearSpan)..(DaySpread * YearSpan)) \cup FarDays }

NextDay ==
  \/ NoInstance /\ \E t \in DayInputs : Construct(t)
  \/ AdjustAny
  \/ Drop

SpecDay == Init /\ [][NextDay]_vars

(***************************************************************************)
(* The leap-second counter between two offsets from the epoch.             *)
(***************************************************************************)
\* size_t offsets: the first seconds, the seconds around every recorded
\* delta, and the two largest values of the type (-2 and -1 as signed)
OffsetInputs(g) ==
  {0, 1, -2, -1}
  \cup { g.leapSecondDeltas[i] + o :
           i \in 1..Len(g.leapSecondDeltas), o \in {-1, 0, 1} }

\* the arguments of a call
Offsets(start, end) ==
  /\ NoInstance
  /\ arg' = [start |-> start, end |-> end]
  /\ op' = "offsets"
  /\ ret' = 0
  /\ diag' = "none"
  /\ lastInit' = NoInit
  /\ UNCHANGED <<stack, statics, tm, other, third, conv, pre, base>>

\* leapSecondsWalkedThroughFrom(start, end)
Walk ==
  /\ op = "offsets"
  /\ ret' = leapSecondsWalkedThroughFrom(G, arg.start, arg.end)
  /\ op' = "walked"
  /\ UNCHANGED <<stack, statics, tm, other, third, conv, arg, pre, base, diag,
                 lastInit>>

NextWalk ==
  \/ \E epochYr \in EpochYears, f \in 1..Len(Files) : InitOk(epochYr, f)
  \/ Drop
  \/ \E start \in OffsetInputs(G), end \in OffsetInputs(G) :
       Offsets(start, end)
  \/ Walk

SpecWalk == Init /\ [][NextWalk]_vars

(***************************************************************************)
(* The difference of two timestamps.                                       *)
(***************************************************************************)
\* two timestamps given by their fields
Operands(a, b) ==
  /\ NoInstance
  /\ tm' = a
  /\ other' = b
  /\ pre' = a
  /\ base' = a
  /\ op' = "operands"
  /\ arg' = 0
  /\ ret' = 0
  /\ diag' = "none"
  /\ lastInit' = NoInit
  /\ UNCHANGED <<stack, statics, third, conv>>

\* tm - other
Subtract ==
  /\ op = "operands"
  /\ monInLimits(tm) /\ monInLimits(other)
  /\ ret' = Minus(G, tm, other)
  /\ op' = "minus"
  /\ UNCHANGED <<stack, statics, tm, other, third, conv, arg, pre, base, diag,
                 lastInit>>

NextDiff ==
  \/ \E epochYr \in EpochYears, f \in 1..Len(Files) : InitOk(epochYr, f)
  \/ Drop
  \/ \E a \in DiffInputs, b \in DiffInputs : Operands(a, b)
  \/ Subtract

SpecDiff == Init /\ [][NextDiff]_vars

(***************************************************************************)
(* adjust() step by step.  The stack holds what a running adjust() has     *)
(* still to do, the next thing first: a function to call, the rest of a    *)
(* function after a call it made, or a loop to run.  One step runs the     *)
(* code up to the next call, return or loop test; a loop iteration is one  *)
(* step (plus the steps of the calls its body makes).                      *)
(***************************************************************************)
\* an entry of the stack: a label and the locals that the code after it reads
Frame(l, addSec, oldEpoch, old) ==
  [l |-> l, addSec |-> addSec, oldEpoch |-> oldEpoch, old |-> old]

Call(l) == Frame(l, 0, 0, StaticInit.epoch)

\* the state after a step: the timestamp, the stack, and whether the step
\* was an iteration of a loop
After(t, stk, iter) == [t |-> t, stack |-> stk, iter |-> iter]

\* while (sec < START_SEC) without a body: the loop test alone
SecBackLoopEmpty(g, t, rest) ==
  IF t.sec < START_SEC
  THEN After(t, <<Call("secBack")>> \o rest, FALSE)
  ELSE After(t, rest, FALSE)

\* fixSec: while (sec < START_SEC) { --min; fixMin(); sec += ...; }
SecBackLoop(g, t, rest) ==
  IF t.sec < START_SEC
  THEN After([t EXCEPT !.min = @ - 1],
             <<Call("fixMin"), Call("secBackAdd"), Call("secBack")>> \o rest,
             TRUE)
  ELSE After(t, rest, FALSE)

\* fixSec: while (sec > START_SEC + numSecondsOfMinute() - 1) { ... }
SecFwdLoop(g, t, rest) ==
  IF t.sec > START_SEC + numSecondsOfMinute(g, t) - 1
  THEN After([t EXCEPT !.sec = @ - numSecondsOfMinute(g, t), !.min = @ + 1],
             <<Call("fixMin"), Call("secFwd")>> \o rest, TRUE)
  ELSE After(t, rest, FALSE)

\* the loops of stepMonNoLeapCorrection (leap = FALSE) and stepMon (TRUE)
MonFwdLoop(t, rest, leap) ==
  LET len == IF leap THEN numDaysOfMonth(t) ELSE days[t.mon - 1]
  IN  IF t.day > START_DAY + len - 1
      THEN After(fixMon([t EXCEPT !.day = @ - len, !.mon = @ + 1]),
                 <<Call(IF leap THEN "stepFwd" ELSE "noLeapFwd")>> \o rest,
                 TRUE)
      ELSE After(t, rest, FALSE)

MonBackLoop(t, rest, leap) ==
  IF t.day < START_DAY
  THEN LET u == fixMon([t EXCEPT !.mon = @ - 1])
           len == IF leap THEN numDaysOfMonth(u) ELSE days[u.mon - 1]
       IN  After([u EXCEPT !.day = @ + len],
                 <<Call(IF leap THEN "stepBack" ELSE "noLeapBack")>> \o rest,
                 TRUE)
  ELSE After(t, rest, FALSE)

\* one step of adjust(): the top of the stack runs on timestamp t
AdjustStep(g, t, stk) ==
  LET top  == Head(stk)
      rest == Tail(stk)
  IN  CASE top.l = "adjust" ->
             IF isValid(g, t) THEN After(t, rest, FALSE)
             ELSE After(fixMon(t),
                        <<Call("fixDay"), Call("fixHr"), Call("fixMin"),
                          Call("fixSec"), Call("fixFracSec")>> \o rest, FALSE)
        [] top.l = "fixDay" ->
             IF dayInLimits(t) THEN After(t, rest, FALSE)
             ELSE LET old   == smart_tm(t.yr, t.mon, START_DAY, START_HR,
                                        START_MIN, START_SEC, START_FRAC_SEC)
                      count == TruncDiv(t.day - START_DAY,
                                        TYPICAL_DAYS_PER_YEAR)
                  IN  After([t EXCEPT !.yr = @ + count,
                                      !.day = @ - count * TYPICAL_DAYS_PER_YEAR],
                            <<Call("noLeapFwd"), Call("noLeapBack"),
                              Frame("fixDayLeap", 0, 0, old),
                              Call("stepFwd"), Call("stepBack")>> \o rest,
                            FALSE)
        [] top.l = "noLeapFwd" -> MonFwdLoop(t, rest, FALSE)
        [] top.l = "noLeapBack" -> MonBackLoop(t, rest, FALSE)
        [] top.l = "fixDayLeap" ->
             After([t EXCEPT !.day = @ - leapDaysWalkedThroughFrom(top.old, t)],
                   rest, FALSE)
        [] top.l = "stepFwd" -> MonFwdLoop(t, rest, TRUE)
        [] top.l = "stepBack" -> MonBackLoop(t, rest, TRUE)
        [] top.l = "fixHr" ->
             IF hrInLimits(t) THEN After(t, rest, FALSE)
             ELSE LET count == FloorDiv(t.hr - START_HR, HOURS_PER_DAY)
                  IN  After([t EXCEPT !.day = @ + count,
                                      !.hr = @ - count * HOURS_PER_DAY],
                            <<Call("fixDay")>> \o rest, FALSE)
        [] top.l = "fixMin" ->
             IF minInLimits(t) THEN After(t, rest, FALSE)
             ELSE LET count == FloorDiv(t.min - START_MIN, MINUTES_PER_HOUR)
                  IN  After([t EXCEPT !.hr = @ + count,
                                      !.min = @ - count * MINUTES_PER_HOUR],
                            <<Call("fixHr")>> \o rest, FALSE)
        [] top.l = "fixSec" ->
             IF secInLimits(g, t) THEN After(t, rest, FALSE)
             ELSE LET t0    == [t EXCEPT !.sec = 0]
                      count == FloorDiv(t.sec - START_SEC,
                                        TYPICAL_SECONDS_PER_MINUTE)
                  IN  After([t0 EXCEPT !.min = @ + count],
                            <<Call("fixMin"),
                              Frame("fixSecLeap",
                                    t.sec - count * TYPICAL_SECONDS_PER_MINUTE,
                                    toEpoch(g, t0), StaticInit.epoch),
                              Call("fixMin"), Call("secFwd"), Call("secBack")>>
                              \o rest, FALSE)
        [] top.l = "fixSecLeap" ->
             LET t2 == [t EXCEPT !.sec = top.addSec]
             IN  After([t2 EXCEPT !.sec = @ - leapSecondsWalkedThroughFrom(
                                          g, top.oldEpoch, toEpoch(g, t2))],
                       rest, FALSE)
        [] top.l = "secFwd" -> SecFwdLoop(g, t, rest)
        [] top.l = "secBack" -> SecBackLoop(g, t, rest)
        [] top.l = "secBackAdd" ->
             After([t EXCEPT !.sec = @ + numSecondsOfMinute(g, t)], rest, FALSE)
        [] top.l = "fixFracSec" ->
             IF fracSecInLimits(t) THEN After(t, rest, FALSE)
             ELSE LET count == FloorD(t.fracSec - START_FRAC_SEC)
                  IN  After([t EXCEPT !.sec = @ + count,
                                      !.fracSec = RoundD(@ - count * One)],
                            <<Call("fixSec")>> \o rest, FALSE)

\* timestamps far out of range: second and day values years away in both
\* directions, months, hours and minutes past their range, a fraction
TermInputs ==
  { smart_tm(DEFAULT_EPOCH_YEAR + 2, mo, d, h, mi, s, f) :
      mo \in {-13, 6}, h \in {-25, 23}, mi \in {59, 121},
      d \in {-(YearSpan * TYPICAL_DAYS_PER_YEAR), -1, 30,
              YearSpan * TYPICAL_DAYS_PER_YEAR + 60},
      s \in {-(YearSpan * SECONDS_PER_YEAR), -61, 60,
              YearSpan * SECONDS_PER_YEAR + 122},
      f \in {-1, Pow2(FracBits - 1)} }

\* t.adjust() is called
AdjustCall ==
  /\ op = "construct"
  /\ stack' = <<Call("adjust")>>
  /\ op' = "adjust.run"
  /\ arg' = 0
  /\ pre' = tm
  /\ UNCHANGED <<statics, tm, other, third, conv, base, ret, diag, lastInit>>

\* the running adjust() takes a step; it returns when nothing is left to do
Step ==
  /\ op = "adjust.run"
  /\ LET next == AdjustStep(G, tm, stack)
     IN  /\ tm' = next.t
         /\ stack' = next.stack
         /\ arg' = IF next.iter THEN arg + 1 ELSE arg
         /\ op' = IF next.stack = <<>> THEN "adjust.done" ELSE "adjust.run"
  /\ UNCHANGED <<statics, other, third, conv, pre, base, ret, diag, lastInit>>

NextTerm ==
  \/ \E epochYr \in EpochYears : InitOk(epochYr, 1)
  \/ Drop
  \/ \E t \in TermInputs : Construct(t)
  \/ AdjustCall
  \/ Step

\* the process runs a called adjust() on: a step that can be taken is taken
SpecTerm == Init /\ [][NextTerm]_vars /\ WF_vars(Step)

(***************************************************************************)
(* The comparisons, applied to every pair of operands.                     *)
(***************************************************************************)
InitCmp ==
  /\ initialized = StaticInit.initialized
  /\ epoch = StaticInit.epoch
  /\ leapSecondTMs = StaticInit.leapSecondTMs
  /\ leapSecondDeltas = StaticInit.leapSecondDeltas
  /\ tm \in CmpInputs(CmpSpread)
  /\ other \in CmpInputs(CmpSpread)
  /\ third \in CmpInputs(1)
  /\ conv = NoConv
  /\ op = "idle"
  /\ arg = 0
  /\ pre = StaticInit.epoch
  /\ base = StaticInit.epoch
  /\ ret = FALSE
  /\ diag = "none"
  /\ lastInit = NoInit
  /\ stack = <<>>

Compare(name, result) ==
  /\ op = "idle"
  /\ op' = name
  /\ ret' = result
  /\ UNCHANGED <<stack, statics, tm, other, third, conv, arg, pre, base, diag,
                 lastInit>>

\* tm < other
OpLess == Compare("lt", Less(tm, other))
\* tm > other
OpGreater == Compare("gt", Greater(tm, other))
\* tm <= other
OpLessEq == Compare("le", LessEq(tm, other))
\* tm >= other
OpGreaterEq == Compare("ge", GreaterEq(tm, other))
\* tm.equalsWithFrac(other)
EqualsWithFrac == Compare("eq", equalsWithFrac(tm, other))

NextCmp ==
  \/ OpLess
  \/ OpGreater
  \/ OpLessEq
  \/ OpGreaterEq
  \/ EqualsWithFrac

SpecCmp == InitCmp /\ [][NextCmp]_vars

(***************************************************************************)
(* Properties.                                                             *)
(***************************************************************************)
\* the statics a first init call leaves in a fresh process
FreshStatics ==
  { init(StaticInit, e, Files[f]) : e \in EpochYears, f \in 1..Len(Files) }

\* a recorded leap instant has the timestamp's year .. minute
MatchesLeapInstant(t) ==
  \E i \in 1..Len(leapSecondTMs) :
    <<t.yr, t.mon, t.day, t.hr, t.min>>
      = <<leapSecondTMs[i].yr, leapSecondTMs[i].mon, leapSecondTMs[i].day,
          leapSecondTMs[i].hr, leapSecondTMs[i].min>>

\* the true length of a month
MonthLength(yr, mon) ==
  IF mon = 2 THEN (IF isLeapYear(yr) THEN 29 ELSE 28)
  ELSE IF mon \in {4, 6, 9, 11} THEN 30 ELSE 31

\* month, day, hour, minute and second within the bounds of the data model
IntegerFieldsInLimits(t) ==
  /\ t.mon \in 1..12
  /\ t.day \in 1..MonthLength(t.yr, t.mon)
  /\ t.hr \in 0..23
  /\ t.min \in 0..59
  /\ t.sec >= 0
  /\ t.sec <= (IF MatchesLeapInstant(t) THEN 60 ELSE 59)

\* ... and the fractional second in [0, 1)
SixFieldsInLimits(t) ==
  IntegerFieldsInLimits(t) /\ t.fracSec >= 0 /\ t.fracSec < One

\* a valid Timestamp of the data model: the six bounds, and the year
ValidTimestamp(t) ==
  t.yr >= epoch.yr /\ t.yr <= END_YR /\ SixFieldsInLimits(t)

\* every field but the second within its bounds
OtherFieldsValid(t) ==
  /\ t.yr >= epoch.yr /\ t.yr <= END_YR
  /\ t.mon \in 1..12
  /\ t.day \in 1..MonthLength(t.yr, t.mon)
  /\ t.hr \in 0..23
  /\ t.min \in 0..59
  /\ t.fracSec >= 0 /\ t.fracSec < One

\* C1: after a successful init, for every valid Timestamp t,
\* smart_tm(t.toEpoch()) equals t in year, month, day, hour, minute, second.
C1_RoundTripEpoch ==
  (op = "toEpoch.fromEpoch" /\ initialized /\ isValid(G, pre))
    => equalsNoFrac(tm, pre)

\* C1 on a process whose tables were built by its first init call.
C1_FirstInit ==
  (op = "toEpoch.fromEpoch" /\ G \in FreshStatics /\ isValid(G, pre))
    => equalsNoFrac(tm, pre)

\* a leap-second instant went through toEpoch() and back after a first init
C1_Witness ==
  /\ op = "toEpoch.fromEpoch" /\ G \in FreshStatics
  /\ isValid(G, pre) /\ pre.sec = 60 /\ equalsNoFrac(tm, pre)

\* C2: after a successful init, for every epoch offset n >= 0 (year <= 9999)
\* smart_tm(n) is valid and smart_tm(n).toEpoch() = n.
C2_RoundTripCalendar ==
  (op = "fromEpoch.toEpoch" /\ initialized /\ arg >= 0)
    => (isValid(G, tm) /\ ret = arg)

\* C2 on a process whose tables were built by its first init call.
C2_FirstInit ==
  (op = "fromEpoch.toEpoch" /\ G \in FreshStatics /\ arg >= 0)
    => (isValid(G, tm) /\ ret = arg)

\* an entry of the leap-delta table went through smart_tm(n) and toEpoch()
C2_Witness ==
  /\ op = "fromEpoch.toEpoch" /\ G \in FreshStatics
  /\ \E i \in 1..Len(leapSecondDeltas) : arg = leapSecondDeltas[i]
  /\ ret = arg

\* C3: for every valid Timestamp t and signed k with t.toEpoch() + k >= 0,
\* t.sec += k; t.adjust() gives a valid t' with t'.toEpoch() = t.toEpoch() + k.
C3_AddSeconds ==
  (op = "addSec.adjust" /\ isValid(G, base) /\ toEpoch(G, base) + arg >= 0)
    => (isValid(G, tm) /\ toEpoch(G, tm) = toEpoch(G, base) + arg)

\* C3 for seconds added (k > 0), on a process whose tables were built by its
\* first init call.
C3_Forward ==
  (op = "addSec.adjust" /\ G \in FreshStatics /\ isValid(G, base) /\ arg > 0)
    => (isValid(G, tm) /\ toEpoch(G, tm) = toEpoch(G, base) + arg)

\* one second was added to a leap-second instant at the end of a year
C3_Witness ==
  /\ op = "addSec.adjust" /\ G \in FreshStatics /\ arg = 1
  /\ base.sec = 60 /\ base.mon = 12
  /\ tm = smart_tm(base.yr + 1, 1, 1, 0, 0, 0, 0)

\* C4: after one call of adjust(), whatever the fields held before, month,
\* day, hour, minute, second and fractional second are within their bounds.
C4_TerminalValidity ==
  (op \in {"adjust", "addSec.adjust"}) => SixFieldsInLimits(tm)

\* C4 for the five integer fields alone.
C4_IntegerFields ==
  (op \in {"adjust", "addSec.adjust"}) => IntegerFieldsInLimits(tm)

\* adjust() ran on a timestamp with several fields out of range
C4_Witness ==
  /\ op = "adjust" /\ ~monInLimits(pre) /\ pre.hr < 0 /\ pre.sec < 0
  /\ pre.fracSec < 0 /\ IntegerFieldsInLimits(tm)

\* C5: adjust() changes no field of a Timestamp that isValid() accepts (or
\* that meets the bounds of the data model); so a second adjust() after a
\* first one that left a valid Timestamp changes nothing.
C5_ValidNoOp ==
  (/\ op \in {"adjust", "addSec.adjust", "adjust.adjust"}
   /\ (isValid(G, pre) \/ ValidTimestamp(pre)))
    => tm = pre

\* a first adjust() turned an invalid Timestamp into a valid one, and a second
\* adjust() ran on the result
C5_Witness ==
  /\ op = "adjust.adjust" /\ initialized
  /\ ~isValid(G, base) /\ isValid(G, pre) /\ tm = pre

\* the leap second that both leap-second files record
LeapJun1904 == smart_tm(DEFAULT_EPOCH_YEAR + 4, 6, 30, 23, 59, 60, 0)

\* C6 (first sentence): with the other fields valid, isValid() accepts
\* second 60 exactly in a recorded leap minute, 0..59 always, 61 and up never.
C6_SecondBound ==
  (op = "isValid" /\ OtherFieldsValid(tm))
    => /\ (tm.sec = 60 => (ret <=> MatchesLeapInstant(tm)))
       /\ (tm.sec \in 0..59 => ret)
       /\ (tm.sec >= 61 => ~ret)

\* C6: the first sentence, and after an init whose file records the leap
\* second of 30 June 1904 the instant 1904-06-30 23:59:60 is valid.
C6_LeapSecondValid ==
  /\ C6_SecondBound
  /\ (op = "isValid" /\ initialized /\ tm = LeapJun1904) => ret

\* C6 on a process whose tables were built by its first init call.
C6_FirstInit ==
  /\ C6_SecondBound
  /\ (op = "isValid" /\ G \in FreshStatics /\ tm = LeapJun1904) => ret

\* isValid() accepted the recorded leap second
C6_Witness ==
  op = "isValid" /\ G \in FreshStatics /\ tm = LeapJun1904 /\ ret = TRUE

\* C7: for a converter built from a valid mission start s and every valid
\* t >= s with zero fractional second, toIntegralMET(t) is
\* t.toEpoch() - s.toEpoch() and toUTC(toIntegralMET(t)) equals t.
C7_MissionRoundTrip ==
  (/\ op = "toUTC"
   /\ isValid(G, conv.missionStartTM) /\ isValid(G, base)
   /\ GreaterEq(base, conv.missionStartTM) /\ base.fracSec = 0)
    => /\ ret = toEpoch(G, base) - toEpoch(G, conv.missionStartTM)
       /\ equalsWithFrac(tm, base)

\* C7 on a process that called init at most once.
C7_FirstInit ==
  (/\ op = "toUTC" /\ G \in FreshStatics \cup {StaticInit}
   /\ isValid(G, conv.missionStartTM) /\ isValid(G, base)
   /\ GreaterEq(base, conv.missionStartTM) /\ base.fracSec = 0)
    => /\ ret = toEpoch(G, base) - toEpoch(G, conv.missionStartTM)
       /\ equalsWithFrac(tm, base)

\* a mission clock ran over a leap second and came back to the timestamp
C7_Witness ==
  /\ op = "toUTC" /\ G \in FreshStatics
  /\ isValid(G, conv.missionStartTM) /\ isValid(G, base)
  /\ Less(conv.missionStartTM, LeapJun1904) /\ Greater(base, LeapJun1904)
  /\ equalsWithFrac(tm, base)

\* C8: after an init call whose file cannot be opened the two tables are
\* empty, the epoch is unmodified and the initialized flag is false.
C8_FailedInitEmpty ==
  (op = "initFail")
    => /\ leapSecondTMs = <<>> /\ leapSecondDeltas = <<>>
       /\ epoch = lastInit.before.epoch
       /\ ~initialized

\* C8 as amended: a failed init call changes nothing; the tables are empty
\* and the flag false when no earlier call succeeded.
C8_FailedInitKeepsState ==
  (op = "initFail")
    => /\ G = lastInit.before
       /\ diag = "error"
       /\ (~lastInit.before.initialized
             => (leapSecondTMs = <<>> /\ leapSecondDeltas = <<>>
                 /\ epoch = StaticInit.epoch /\ ~initialized))

\* an init call failed after an earlier one had built the tables
C8_Witness ==
  /\ op = "initFail" /\ lastInit.before.initialized
  /\ leapSecondTMs # <<>> /\ G = lastInit.before

\* C9: after any sequence of successful init calls ending with
\* init(E, file) the tables and the epoch are those of init(E, file) as the
\* first call of a fresh process.
C9_ReinitRebuilds ==
  (op = "init") => G = init(StaticInit, epoch.yr, Files[lastInit.file])

\* C9 for the first init call of a process.
C9_FirstInit ==
  (op = "init" /\ lastInit.before = StaticInit)
    => G = init(StaticInit, epoch.yr, Files[lastInit.file])

\* init ran on a process that an earlier init call had initialised
C9_Witness ==
  op = "init" /\ lastInit.before.initialized

\* the seven fields in the order of the comparison
Key(t) == <<t.yr, t.mon, t.day, t.hr, t.min, t.sec, t.fracSec>>

\* the lexicographic order of two keys
LexLess(a, b) ==
  \E i \in 1..7 :
    /\ Key(a)[i] < Key(b)[i]
    /\ \A j \in 1..(i - 1) : Key(a)[j] = Key(b)[j]

\* C10: operator< is the lexicographic order over (year, month, day, hour,
\* minute, second, fractional second): irreflexive, transitive, exactly one
\* of a < b, b < a, a.equalsWithFrac(b); >, <= and >= are derived from it.
C10_TotalOrder ==
  /\ ~Less(tm, tm) /\ ~Less(other, other)
  /\ (Less(tm, other) /\ Less(other, third)) => Less(tm, third)
  /\ (Less(third, tm) /\ Less(tm, other)) => Less(third, other)
  /\ Cardinality({x \in {1, 2, 3} :
                    \/ x = 1 /\ Less(tm, other)
                    \/ x = 2 /\ Less(other, tm)
                    \/ x = 3 /\ equalsWithFrac(tm, other)}) = 1
  /\ (op = "lt" => (ret <=> LexLess(tm, other)))
  /\ (op = "gt" => (ret <=> LexLess(other, tm)))
  /\ (op = "le" => (ret <=> (LexLess(tm, other) \/ Key(tm) = Key(other))))
  /\ (op = "ge" => (ret <=> (LexLess(other, tm) \/ Key(tm) = Key(other))))
  /\ (op = "eq" => (ret <=> Key(tm) = Key(other)))

\* a < b was decided by the fractional second alone, with b < c
C10_Witness ==
  /\ op = "lt" /\ ret = TRUE
  /\ equalsNoFrac(tm, other) /\ Less(other, third)

\* C11: for valid Timestamps a and b with zero fractional seconds, a - b is
\* the signed integer a.toEpoch() - b.toEpoch(): negative when a is earlier
\* than b, and a - b = -(b - a).
C11_SignedDifference ==
  (/\ op = "minus" /\ isValid(G, tm) /\ isValid(G, other)
   /\ tm.fracSec = 0 /\ other.fracSec = 0)
    => /\ ret.frac = 0
       /\ ret.whole = toEpoch(G, tm) - toEpoch(G, other)
       /\ (Less(tm, other) => ret.whole < 0)
       /\ (Less(other, tm) => ret.whole > 0)
       /\ ret.whole = -Minus(G, other, tm).whole
       /\ ret.frac = -Minus(G, other, tm).frac

\* an earlier timestamp minus a later one, a recorded leap second in between
C11_Witness ==
  /\ op = "minus" /\ initialized /\ isValid(G, tm) /\ isValid(G, other)
  /\ tm.fracSec = 0 /\ other.fracSec = 0
  /\ \E i \in 1..Len(leapSecondTMs) :
       Less(tm, leapSecondTMs[i]) /\ Less(leapSecondTMs[i], other)
  /\ ret.whole < 0

\* C12: adjust() terminates for every Timestamp with finite integer fields,
\* large negative second or day values included: a call that runs reaches
\* its return.
C12_Terminates == (op = "adjust.run") ~> (op = "adjust.done")

\* C12, the loops: the fine-step loops of fixSec, stepMon and
\* stepMonNoLeapCorrection make at most MaxIterations iterations in one call,
\* and the call returns what adjust() returns.
C12_LoopsBounded ==
  /\ (op \in {"adjust.run", "adjust.done"}) => arg <= MaxIterations
  /\ (op = "adjust.done") => tm = adjust(G, pre)

\* adjust() returned after a second value years below its range took the
\* coarse jump over recorded leap seconds and the loops ran
C12_Witness ==
  /\ op = "adjust.done" /\ initialized
  /\ pre.sec < -SECONDS_PER_YEAR /\ pre.day < -TYPICAL_DAYS_PER_YEAR
  /\ arg >= 2

\* the Timestamp operations: the constructors, adjust and toEpoch
Operations == Constructors \cup {"adjust", "toEpoch"}

\* no leap-second correction and the default epoch year: every minute has 60
\* seconds, and adjust and toEpoch give what they give on the initial statics
DefaultBehaviour ==
  /\ epoch.yr = DEFAULT_EPOCH_YEAR
  /\ numSecondsOfMinute(G, tm) = TYPICAL_SECONDS_PER_MINUTE
  /\ (op = "adjust" => tm = adjust(StaticInit, pre))
  /\ (op = "toEpoch" => ret = toEpoch(StaticInit, tm))

EntriesWithin(lo, hi) ==
  Cardinality({i \in 1..Len(leapSecondDeltas) :
                 ULe(lo, leapSecondDeltas[i]) /\ ULe(leapSecondDeltas[i], hi)})

\* C14: leapSecondsWalkedThroughFrom(start, end) is +(entries within
\* [start, end]) when end > start, -(entries within [end, start]) when
\* end < start, and 0 when start = end, also at a table entry.
C14_ClosedIntervalCount ==
  op = "walked"
    => ret = CASE UGt(arg.end, arg.start) -> EntriesWithin(arg.start, arg.end)
               [] ULt(arg.end, arg.start) -> -EntriesWithin(arg.end, arg.start)
               [] OTHER -> 0

\* what the code gives: the claimed counts when start and end differ, and
\* minus the entries equal to start when they are equal
C14_EqualOffsets ==
  op = "walked"
    => ret = CASE UGt(arg.end, arg.start) -> EntriesWithin(arg.start, arg.end)
               [] OTHER -> -EntriesWithin(arg.end, arg.start)

\* a call with start = end at a recorded delta returned -1
C14_Witness ==
  /\ op = "walked" /\ arg.start = arg.end
  /\ \E i \in 1..Len(leapSecondDeltas) : leapSecondDeltas[i] = arg.start
  /\ ret = -1

\* the date n true days after the first day of (yr, mon), n of either sign
RECURSIVE TrueDate(_, _, _)
TrueDate(yr, mon, n) ==
  IF n < 0
  THEN LET py == IF mon = 1 THEN yr - 1 ELSE yr
           pm == IF mon = 1 THEN 12 ELSE mon - 1
       IN  TrueDate(py, pm, n + MonthLength(py, pm))
  ELSE IF n >= MonthLength(yr, mon)
  THEN TrueDate(IF mon = 12 THEN yr + 1 ELSE yr,
                IF mon = 12 THEN 1 ELSE mon + 1,
                n - MonthLength(yr, mon))
  ELSE [yr |-> yr, mon |-> mon, day |-> n + 1]

\* the values of the file's data lines
FileValues(f) ==
  [i \in 1..Len(getNextLines(Files[f])) |->
     strtoull(LeadingDigits(getNextLines(Files[f])[i]))]

\* the file's values after the first second of year epochYr, in file order
ValuesAfter(f, epochYr) ==
  SelectSeq(FileValues(f),
            LAMBDA v : v > numSecondsBetweenEpochs(DEFAULT_EPOCH_YEAR, epochYr))

\* C15: after a successful init(E, file) on a fresh process with an ascending
\* file the two tables have the same length, every leap instant is second 60
\* of 23:59 of the day before the file's instant, the deltas are strictly
\* increasing, and leapInstant[i].toEpoch() = leapDelta[i] for every i.
C15_ParallelTables ==
  (op = "init" /\ lastInit.before = StaticInit)
    => LET vals == ValuesAfter(lastInit.file, epoch.yr)
       IN  /\ Len(leapSecondTMs) = Len(leapSecondDeltas)
           /\ Len(leapSecondTMs) = Len(vals)
           /\ \A i \in 1..Len(leapSecondTMs) :
                LET date == TrueDate(DEFAULT_EPOCH_YEAR, 1,
                                     vals[i] \div SECONDS_PER_DAY - 1)
                IN  /\ leapSecondTMs[i] =
                         smart_tm(date.yr, date.mon, date.day, 23, 59, 60, 0)
                    /\ toEpoch(G, leapSecondTMs[i]) = leapSecondDeltas[i]
           /\ \A i \in 1..(Len(leapSecondDeltas) - 1) :
                ULt(leapSecondDeltas[i], leapSecondDeltas[i + 1])

\* a first init recorded three leap seconds, the third two seconds after its
\* file value
C15_Witness ==
  /\ op = "init" /\ lastInit.before = StaticInit
  /\ Len(leapSecondTMs) = 3
  /\ leapSecondDeltas[3] = LeapJul1904 + 2
  /\ leapSecondTMs[3] = LeapJun1904

\* the whole seconds from 1900-01-01 to the first second of year yr, negative
\* for a year before 1900, by true year lengths
RECURSIVE SecondsFrom1900(_)
SecondsFrom1900(yr) ==
  IF yr = DEFAULT_EPOCH_YEAR THEN 0
  ELSE IF yr > DEFAULT_EPOCH_YEAR
  THEN SecondsFrom1900(yr - 1)
         + (IF isLeapYear(yr - 1) THEN 366 ELSE 365) * SECONDS_PER_DAY
  ELSE SecondsFrom1900(yr + 1)
         - (IF isLeapYear(yr) THEN 366 ELSE 365) * SECONDS_PER_DAY

\* the line just read was recorded: one delta v - d + k and one leap instant
Recorded(fr, d) ==
  /\ leapSecondDeltas =
       Append(fr.before.leapSecondDeltas,
              fr.defaultEpochToLeapSecond - d + fr.kBefore)
  /\ Len(leapSecondTMs) = Len(fr.before.leapSecondTMs) + 1
  /\ SubSeq(leapSecondTMs, 1, Len(fr.before.leapSecondTMs))
       = fr.before.leapSecondTMs
  /\ fr.leapSecondsSoFar = fr.kBefore + 1

\* the line just read was skipped: both tables and k are unchanged
Skipped(fr) ==
  /\ leapSecondDeltas = fr.before.leapSecondDeltas
  /\ leapSecondTMs = fr.before.leapSecondTMs
  /\ fr.leapSecondsSoFar = fr.kBefore

\* init has just read a line
LineRead == op = "init.run" /\ stack[1].defaultEpochToLeapSecond >= 0

\* C16: for every epoch year E, years before 1900 included, and d the whole
\* seconds from 1900-01-01 to E-01-01, a line with value v is recorded (delta
\* v - d + k and one leap instant) iff v > d, and is skipped otherwise.
C16_SelectionByEpoch ==
  LineRead
    => LET fr == stack[1]
           d  == SecondsFrom1900(fr.epochYr)
       IN  IF fr.defaultEpochToLeapSecond > d
           THEN Recorded(fr, d) ELSE Skipped(fr)

\* C16 for the epoch years from 1900 on.
C16_From1900 ==
  (LineRead /\ stack[1].epochYr >= DEFAULT_EPOCH_YEAR)
    => LET fr == stack[1]
           d  == SecondsFrom1900(fr.epochYr)
       IN  IF fr.defaultEpochToLeapSecond > d
           THEN Recorded(fr, d) ELSE Skipped(fr)

\* an epoch year before 1900: d wraps to a size_t above every value of the
\* file and every line is skipped
C16_Before1900 ==
  (LineRead /\ stack[1].epochYr < DEFAULT_EPOCH_YEAR) => Skipped(stack[1])

\* init with an epoch year before 1900 read a line and skipped it
C16_Witness ==
  /\ LineRead
  /\ stack[1].epochYr = DEFAULT_EPOCH_YEAR - 1
  /\ stack[1].defaultEpochToLeapSecond = LeapJul1904
  /\ Skipped(stack[1])

\* init line by line ends with the statics of init as a whole
C16_StepsAgree ==
  (op = "init" /\ lastInit # NoInit)
    => G = init(lastInit.before, epoch.yr, Files[lastInit.file])

====
